---------------------------- MODULE Spec2Model ----------------------------
(***************************************************************************)
(* Loading doc/sphinx/conf.py: the module is executed once, top to bottom. *)
(* Each statement is an import, an assignment of an expression to a name,  *)
(* or an item assignment on an object held by a name.  Expressions are     *)
(* kept as syntax trees and evaluated against the namespace built so far,  *)
(* so an unbound name raises NameError and a missing key raises KeyError.  *)
(*                                                                         *)
(* Strings the code operates on (release, MDAnalysis_version and the       *)
(* rst_epilog template) are sequences of one-character strings; strings    *)
(* that are only stored are atomic.                                        *)
(***************************************************************************)
EXTENDS Integers, Sequences, FiniteSets, TLC

VARIABLES
    pc,              \* index in Program of the next statement to execute
    ns,              \* the module namespace: bound name -> value
    heap,            \* mutable objects created during load: id -> contents
    err,             \* "none", or the exception that aborted the load
    sysPath,         \* sys.path of the loading process
    sysModules,      \* names of the modules in sys.modules
    environ,         \* os.environ of the loading process
    files,           \* files present in the documentation directory
    releaseLiteral   \* the string literal on the right of `release =`

vars == <<pc, ns, heap, err, sysPath, sysModules, environ, files, releaseLiteral>>

-----------------------------------------------------------------------------
(* Bounds of the model. *)

MaxPathLen == 1
MaxReleaseLen == 5

PathEntries == {"", "/usr/lib/python3"}
ReleaseChars == {"2", "0", "."}

SeqsUpTo(S, k) == UNION {[1..j -> S] : j \in 0..k}

-----------------------------------------------------------------------------
(* Python values and string methods. *)

None == [type |-> "NoneType"]

Min(S) == CHOOSE x \in S : \A y \in S : x <= y
Max(S) == CHOOSE x \in S : \A y \in S : x >= y

\* The positions at which sep occurs in s (sep is one character).
SepPositions(s, sep) == {i \in 1..Len(s) : s[i] = sep}

\* s.split(sep): the pieces of s between the occurrences of sep.
RECURSIVE str_split(_, _)
str_split(s, sep) ==
    IF SepPositions(s, sep) = {}
    THEN <<s>>
    ELSE LET i == Min(SepPositions(s, sep))
         IN  <<SubSeq(s, 1, i - 1)>> \o str_split(SubSeq(s, i + 1, Len(s)), sep)

\* seq[:stop] for stop >= 0.
slice_to(seq, stop) == SubSeq(seq, 1, IF stop < Len(seq) THEN stop ELSE Len(seq))

\* sep.join(parts).
RECURSIVE str_join(_, _)
str_join(sep, parts) ==
    IF Len(parts) = 0 THEN <<>>
    ELSE IF Len(parts) = 1 THEN parts[1]
    ELSE parts[1] \o sep \o str_join(sep, Tail(parts))

\* The replacement field of the template.
Field0 == <<"{", "0", "}">>

FieldPositions(t) ==
    {i \in 1..(Len(t) - 2) : SubSeq(t, i, i + 2) = Field0}

\* template.format(arg): every {0} in the template replaced by arg.
RECURSIVE str_format(_, _)
str_format(t, arg) ==
    IF FieldPositions(t) = {}
    THEN t
    ELSE LET i == Min(FieldPositions(t))
         IN  SubSeq(t, 1, i - 1) \o arg \o str_format(SubSeq(t, i + 3, Len(t)), arg)

\* An OrderedDict is a sequence of <<key, value>> pairs in insertion order.
od_keys(od) == {od[i][1] : i \in 1..Len(od)}

\* od[key] = value: replaces the value of an existing key in place, appends
\* a new key at the end.
od_setitem(od, key, value) ==
    IF key \in od_keys(od)
    THEN [i \in 1..Len(od) |-> IF od[i][1] = key THEN <<key, value>> ELSE od[i]]
    ELSE Append(od, <<key, value>>)

-----------------------------------------------------------------------------
(* Syntax of the expressions and statements conf.py is made of. *)

Lit(v) == [op |-> "lit", val |-> v]
Name(id) == [op |-> "name", id |-> id]
Subscript(e, k) == [op |-> "subscript", obj |-> e, key |-> k]
Split(e, sep) == [op |-> "split", obj |-> e, sep |-> sep]
SliceTo(e, stop) == [op |-> "slice", obj |-> e, stop |-> stop]
Join(sep, e) == [op |-> "join", sep |-> sep, obj |-> e]
Format(t, e) == [op |-> "format", template |-> t, obj |-> e]
Call(f) == [op |-> "call", func |-> f]
Dict(items) == [op |-> "dict", items |-> items]
Item(k, e) == [key |-> k, value |-> e]

Import(line, module) ==
    [kind |-> "import", line |-> line, target |-> module, module |-> module]
FromImport(line, module, attr) ==
    [kind |-> "from_import", line |-> line, target |-> attr, module |-> module]
Assign(line, target, e) ==
    [kind |-> "assign", line |-> line, target |-> target, value |-> e]
SetItem(line, target, key, e) ==
    [kind |-> "setitem", line |-> line, target |-> target, key |-> key, value |-> e]

-----------------------------------------------------------------------------
(* The right-hand sides of conf.py, under the names they are bound to. *)

\* Variant: the sitemap extension is not listed.
extensions_without_sitemap ==
    Lit(<<"sphinx.ext.autodoc", "sphinx.ext.intersphinx", "sphinx.ext.mathjax",
          "sphinx.ext.ifconfig", "sphinx.ext.viewcode", "sphinx.ext.githubpages">>)

extensions ==
    Lit(<<"sphinx.ext.autodoc", "sphinx.ext.intersphinx", "sphinx.ext.mathjax",
          "sphinx.ext.ifconfig", "sphinx.ext.viewcode", "sphinx.ext.githubpages",
          "sphinx_sitemap">>)

mathjax_path ==
    Lit("https://cdnjs.cloudflare.com/ajax/libs/mathjax/2.7.0/MathJax.js?config=TeX-AMS-MML_HTMLorMML")

site_url == Lit("https://www.mdanalysis.org/MDAnalysisTutorial/")

templates_path == Lit(<<"_templates">>)

source_suffix == Lit(".rst")

\* Variant: the root document is named 'contents'.
master_doc_contents == Lit("contents")

master_doc == Lit("index")

project == Lit("MDAnalysis Tutorial")

copyright == Lit("2015-2017, Oliver Beckstein, Max Linke")

\* '2.0.0', the literal written in the source.
ReleaseInSource == <<"2", ".", "0", ".", "0">>

release == Lit(releaseLiteral)

\* Variant: the short version written out as a literal.
version_literal == Lit(<<"2", ".", "0">>)

\* Variant: the slice keeps one component, [:1].
version_first_component == Join(<<".">>, SliceTo(Split(Name("release"), "."), 1))

version == Join(<<".">>, SliceTo(Split(Name("release"), "."), 2))

MDAnalysis_version == Lit(<<"0", ".", "1", "6", ".", "2">>)

language == Lit("en")

exclude_patterns == Lit(<<"_build", "Thumbs.db", ".DS_Store">>)

pygments_style == Lit("sphinx")

autoclass_content == Lit("both")

\* """\n.. |MDAnalysis_version| replace:: {0}\n"""
rst_epilog_template ==
    <<"\n", ".", ".", " ", "|", "M", "D", "A", "n", "a", "l", "y", "s", "i",
      "s", "_", "v", "e", "r", "s", "i", "o", "n", "|", " ", "r", "e", "p",
      "l", "a", "c", "e", ":", ":", " ", "{", "0", "}", "\n">>

\* Variant: the template is bound without .format().
rst_epilog_unformatted == Lit(rst_epilog_template)

rst_epilog == Format(rst_epilog_template, Name("MDAnalysis_version"))

numfig == Lit(TRUE)

html_theme == Lit("alabaster")

\* Variant: the dictionary lacks the key 'white'.
color_without_white ==
    Lit([orange |-> "#FF9200", gray |-> "#808080", black |-> "#000000"])

color ==
    Lit([orange |-> "#FF9200", gray |-> "#808080", white |-> "#FFFFFF",
         black |-> "#000000"])

extra_nav_links == Call(Name("OrderedDict"))

html_theme_options ==
    Dict(<<Item("logo", Lit("logos/mdanalysistutorial-logo-200x150.png")),
           Item("github_user", Lit("MDAnalysis")),
           Item("github_repo", Lit("mdanalysis")),
           Item("github_button", Lit(FALSE)),
           Item("github_banner", Lit(TRUE)),
           Item("show_related", Lit(TRUE)),
           Item("fixed_sidebar", Lit(FALSE)),
           Item("sidebar_includehidden", Lit(TRUE)),
           Item("sidebar_collapse", Lit(TRUE)),
           Item("link", Subscript(Name("color"), "orange")),
           Item("link_hover", Subscript(Name("color"), "orange")),
           Item("gray_1", Subscript(Name("color"), "gray")),
           Item("narrow_sidebar_bg", Subscript(Name("color"), "gray")),
           Item("narrow_sidebar_fg", Subscript(Name("color"), "white")),
           Item("font_family", Lit("'PT Sans', Helvetica, Arial, 'sans-serif'")),
           Item("head_font_family", Lit("")),
           Item("code_font_family", Lit("Menlo, Monaco, 'Courier New', monospace")),
           Item("caption_font_size", Lit("smaller")),
           Item("extra_nav_links", Name("extra_nav_links"))>>)

html_favicon == Lit("_static/logos/mdanalysis-logo.ico")

html_static_path == Lit(<<"_static">>)

html_sidebars ==
    Lit("**" :> <<"about.html", "navigation.html", "relations.html",
                  "searchbox.html">>)

latex_elements == Lit(<<>>)

latex_documents ==
    Lit(<< <<"index", "MDAnalysisTutorial.tex", "MDAnalysis Tutorial Documentation",
             "Oliver Beckstein, Max Linke", "manual">> >>)

man_pages ==
    Lit(<< <<"index", "mdanalysistutorial", "MDAnalysis Tutorial Documentation",
             <<"Oliver Beckstein", "Max Linke">>, 1>> >>)

\* Variant: the Texinfo tuple without dir menu entry and description.
texinfo_documents_five ==
    Lit(<< <<"index", "MDAnalysisTutorial", "MDAnalysis Tutorial Documentation",
             "Oliver Beckstein, Max Linke", "Miscellaneous">> >>)

texinfo_documents ==
    Lit(<< <<"index", "MDAnalysisTutorial", "MDAnalysis Tutorial Documentation",
             "Oliver Beckstein, Max Linke", "MDAnalysisTutorial",
             "One line description of project.", "Miscellaneous">> >>)

intersphinx_mapping ==
    Lit(("http://docs.python.org/" :> None)
        @@ ("http://docs.mdanalysis.org/" :> None)
        @@ ("http://matplotlib.org" :> None)
        @@ ("http://docs.scipy.org/doc/numpy/" :> None))

-----------------------------------------------------------------------------
(* The statements of conf.py, in source order, by section of the file. *)

\* Variant: the package is imported too, as autodoc set-ups do.
Imports_with_package ==
    <<Import(15, "sys"),
      Import(16, "os"),
      Import(17, "MDAnalysis")>>

Imports ==
    <<Import(15, "sys"),
      Import(16, "os")>>

GeneralConfiguration ==
    <<Assign(31, "extensions", extensions),
      Assign(41, "mathjax_path", mathjax_path),
      Assign(44, "site_url", site_url),
      Assign(47, "templates_path", templates_path),
      Assign(50, "source_suffix", source_suffix),
      Assign(56, "master_doc", master_doc),
      Assign(59, "project", project),
      Assign(60, "copyright", copyright),
      Assign(67, "release", release),
      Assign(69, "version", version),
      Assign(75, "MDAnalysis_version", MDAnalysis_version),
      Assign(79, "language", language),
      Assign(89, "exclude_patterns", exclude_patterns),
      Assign(107, "pygments_style", pygments_style),
      Assign(116, "autoclass_content", autoclass_content),
      Assign(120, "rst_epilog", rst_epilog),
      Assign(125, "numfig", numfig)>>

\* Variant: line 150 assigns the key 'docs' a second time.
NavLinks_repeated_key ==
    <<FromImport(146, "collections", "OrderedDict"),
      Assign(147, "extra_nav_links", extra_nav_links),
      SetItem(148, "extra_nav_links", "MDAnalysis", Lit("http://mdanalysis.org")),
      SetItem(149, "extra_nav_links", "docs", Lit("http://docs.mdanalysis.org")),
      SetItem(150, "extra_nav_links", "docs", Lit("http://wiki.mdanalysis.org")),
      SetItem(151, "extra_nav_links", "user discussion group",
              Lit("http://users.mdanalysis.org")),
      SetItem(152, "extra_nav_links", "GitHub", Lit("https://github.com/mdanalysis")),
      SetItem(153, "extra_nav_links", "@mdanalysis",
              Lit("https://twitter.com/mdanalysis"))>>

NavLinks ==
    <<FromImport(146, "collections", "OrderedDict"),
      Assign(147, "extra_nav_links", extra_nav_links),
      SetItem(148, "extra_nav_links", "MDAnalysis", Lit("http://mdanalysis.org")),
      SetItem(149, "extra_nav_links", "docs", Lit("http://docs.mdanalysis.org")),
      SetItem(150, "extra_nav_links", "wiki", Lit("http://wiki.mdanalysis.org")),
      SetItem(151, "extra_nav_links", "user discussion group",
              Lit("http://users.mdanalysis.org")),
      SetItem(152, "extra_nav_links", "GitHub", Lit("https://github.com/mdanalysis")),
      SetItem(153, "extra_nav_links", "@mdanalysis",
              Lit("https://twitter.com/mdanalysis"))>>

HTMLOutput ==
    <<Assign(132, "html_theme", html_theme),
      Assign(141, "color", color)>>
    \o NavLinks
    \o <<Assign(155, "html_theme_options", html_theme_options),
         Assign(184, "html_favicon", html_favicon),
         Assign(190, "html_static_path", html_static_path),
         Assign(194, "html_sidebars", html_sidebars)>>

LaTeXOutput ==
    <<Assign(206, "latex_elements", latex_elements),
      Assign(220, "latex_documents", latex_documents)>>

ManualPageOutput ==
    <<Assign(250, "man_pages", man_pages)>>

TexinfoOutput ==
    <<Assign(264, "texinfo_documents", texinfo_documents)>>

Intersphinx ==
    <<Assign(284, "intersphinx_mapping", intersphinx_mapping)>>

Program ==
    Imports \o GeneralConfiguration \o HTMLOutput \o LaTeXOutput
    \o ManualPageOutput \o TexinfoOutput \o Intersphinx

-----------------------------------------------------------------------------
(* Evaluation of an expression in namespace n with heap h. *)

Ok(v) == [err |-> "none", val |-> v]
Raise(e) == [err |-> e, val |-> None]

\* The id the next object created gets.
NewRef(h) == [ref |-> Cardinality(DOMAIN h) + 1]

RECURSIVE Eval(_, _, _)
Eval(e, n, h) ==
    CASE e.op = "lit" -> Ok(e.val)
      [] e.op = "name" ->
            IF e.id \in DOMAIN n THEN Ok(n[e.id]) ELSE Raise("NameError")
      [] e.op = "subscript" ->
            LET o == Eval(e.obj, n, h)
            IN  IF o.err # "none" THEN o
                ELSE IF e.key \in DOMAIN o.val THEN Ok(o.val[e.key])
                ELSE Raise("KeyError")
      [] e.op = "split" ->
            LET o == Eval(e.obj, n, h)
            IN  IF o.err # "none" THEN o ELSE Ok(str_split(o.val, e.sep))
      [] e.op = "slice" ->
            LET o == Eval(e.obj, n, h)
            IN  IF o.err # "none" THEN o ELSE Ok(slice_to(o.val, e.stop))
      [] e.op = "join" ->
            LET o == Eval(e.obj, n, h)
            IN  IF o.err # "none" THEN o ELSE Ok(str_join(e.sep, o.val))
      [] e.op = "format" ->
            LET o == Eval(e.obj, n, h)
            IN  IF o.err # "none" THEN o ELSE Ok(str_format(e.template, o.val))
      [] e.op = "call" ->
            LET f == Eval(e.func, n, h)
            IN  IF f.err # "none" THEN f ELSE Ok(NewRef(h))
      [] e.op = "dict" ->
            LET rs == [i \in 1..Len(e.items) |-> Eval(e.items[i].value, n, h)]
                bad == {i \in 1..Len(e.items) : rs[i].err # "none"}
                keys == {e.items[i].key : i \in 1..Len(e.items)}
                last(k) == Max({i \in 1..Len(e.items) : e.items[i].key = k})
            IN  IF bad # {} THEN rs[Min(bad)]
                ELSE Ok([k \in keys |-> rs[last(k)].val])

\* name = value in namespace n.
Bind(n, name, value) ==
    [x \in (DOMAIN n) \cup {name} |-> IF x = name THEN value ELSE n[x]]

-----------------------------------------------------------------------------
(* The load. *)

Running == err = "none" /\ pc \in 1..Len(Program)
Loaded == err = "none" /\ pc = Len(Program) + 1

InitLoad ==
    /\ pc = 1
    /\ ns = <<>>
    /\ heap = <<>>
    /\ err = "none"

Init ==
    /\ InitLoad
    /\ sysPath \in SeqsUpTo(PathEntries, MaxPathLen)
    /\ sysModules \in {{"sys", "os"}, {"sys", "os", "collections"}}
    /\ environ \in {<<>>, "SPHINXOPTS" :> "-W"}
    /\ files = {"conf.py", "index.rst"}
    /\ releaseLiteral = ReleaseInSource

InitAnyRelease ==
    /\ InitLoad
    /\ sysPath = <<>>
    /\ sysModules = {"sys", "os", "collections"}
    /\ environ = <<>>
    /\ files = {"conf.py", "index.rst"}
    /\ releaseLiteral \in SeqsUpTo(ReleaseChars, MaxReleaseLen)

\* import module
ExecImport ==
    /\ Running
    /\ Program[pc].kind = "import"
    /\ sysModules' = sysModules \cup {Program[pc].module}
    /\ ns' = Bind(ns, Program[pc].target, [module |-> Program[pc].module])
    /\ pc' = pc + 1
    /\ UNCHANGED <<heap, err, sysPath, environ, files, releaseLiteral>>

\* from module import attr
ExecFromImport ==
    /\ Running
    /\ Program[pc].kind = "from_import"
    /\ sysModules' = sysModules \cup {Program[pc].module}
    /\ ns' = Bind(ns, Program[pc].target,
                  [module |-> Program[pc].module, attr |-> Program[pc].target])
    /\ pc' = pc + 1
    /\ UNCHANGED <<heap, err, sysPath, environ, files, releaseLiteral>>

\* target = expression
ExecAssign ==
    /\ Running
    /\ Program[pc].kind = "assign"
    /\ LET r == Eval(Program[pc].value, ns, heap)
       IN  IF r.err = "none"
           THEN /\ ns' = Bind(ns, Program[pc].target, r.val)
                /\ heap' = IF Program[pc].value.op = "call"
                           THEN Bind(heap, r.val.ref, <<>>)
                           ELSE heap
                /\ pc' = pc + 1
                /\ err' = err
           ELSE /\ err' = r.err
                /\ UNCHANGED <<pc, ns, heap>>
    /\ UNCHANGED <<sysPath, sysModules, environ, files, releaseLiteral>>

\* target[key] = expression
ExecSetItem ==
    /\ Running
    /\ Program[pc].kind = "setitem"
    /\ LET o == Eval(Name(Program[pc].target), ns, heap)
           r == Eval(Program[pc].value, ns, heap)
       IN  IF o.err # "none"
           THEN err' = o.err /\ UNCHANGED <<pc, heap>>
           ELSE IF r.err # "none"
           THEN err' = r.err /\ UNCHANGED <<pc, heap>>
           ELSE /\ heap' = [heap EXCEPT ![o.val.ref] =
                                od_setitem(@, Program[pc].key, r.val)]
                /\ pc' = pc + 1
                /\ err' = err
    /\ UNCHANGED <<ns, sysPath, sysModules, environ, files, releaseLiteral>>

Next ==
    \/ ExecImport
    \/ ExecFromImport
    \/ ExecAssign
    \/ ExecSetItem

Spec == Init /\ [][Next]_vars

SpecAnyRelease == InitAnyRelease /\ [][Next]_vars

-----------------------------------------------------------------------------
(* Vocabulary of the properties. *)

\* The names an expression reads.
RECURSIVE FreeNames(_)
FreeNames(e) ==
    CASE e.op = "lit" -> {}
      [] e.op = "name" -> {e.id}
      [] e.op \in {"subscript", "split", "slice", "join", "format"} -> FreeNames(e.obj)
      [] e.op = "call" -> FreeNames(e.func)
      [] e.op = "dict" -> UNION {FreeNames(e.items[i].value) : i \in 1..Len(e.items)}

\* The <<name, key>> pairs an expression looks up.
RECURSIVE KeysUsed(_)
KeysUsed(e) ==
    CASE e.op \in {"lit", "name"} -> {}
      [] e.op = "subscript" -> {<<e.obj.id, e.key>>}
      [] e.op \in {"split", "slice", "join", "format"} -> KeysUsed(e.obj)
      [] e.op = "call" -> KeysUsed(e.func)
      [] e.op = "dict" -> UNION {KeysUsed(e.items[i].value) : i \in 1..Len(e.items)}

StmtReads(s) ==
    CASE s.kind \in {"import", "from_import"} -> {}
      [] s.kind = "assign" -> FreeNames(s.value)
      [] s.kind = "setitem" -> {s.target} \cup FreeNames(s.value)

StmtKeys(s) ==
    IF s.kind \in {"assign", "setitem"} THEN KeysUsed(s.value) ELSE {}

Bound(name) == name \in DOMAIN ns
Range(f) == {f[i] : i \in DOMAIN f}
IsPrefix(p, s) == Len(p) <= Len(s) /\ SubSeq(s, 1, Len(p)) = p

\* The statement about to run binds a name.
Binding == Program[pc].kind \in {"import", "from_import", "assign"}

-----------------------------------------------------------------------------
(* C1: the load never raises: every name the next statement reads is       *)
(* already bound, every key it looks up is defined, and the load goes on   *)
(* until the last statement has run.                                       *)
C1_LoadsWithoutError ==
    /\ err = "none"
    /\ Running =>
        /\ StmtReads(Program[pc]) \subseteq DOMAIN ns
        /\ \A k \in StmtKeys(Program[pc]) : k[2] \in DOMAIN ns[k[1]]
        /\ ENABLED Next

C1_Witness ==
    /\ Loaded
    /\ Bound("html_theme_options")
    /\ ns["html_theme_options"]["narrow_sidebar_fg"] = "#FFFFFF"
    /\ Bound("version")
    /\ Bound("rst_epilog")

-----------------------------------------------------------------------------
(* C3, as claimed: no step rebinds a bound name or changes a value that a  *)
(* name already holds.                                                     *)
C3_NeverReboundNeverMutated ==
    [][/\ \A x \in DOMAIN ns : x \in DOMAIN ns' /\ ns'[x] = ns[x]
       /\ \A o \in DOMAIN heap : o \in DOMAIN heap' /\ heap'[o] = heap[o]
       /\ (Running /\ Binding /\ pc' = pc + 1) => ~Bound(Program[pc].target)]_vars

(* C3, amended: no step rebinds a bound name, and the only value that      *)
(* changes after it is bound is the OrderedDict held by extra_nav_links:   *)
(* an item assignment appends one new key to it, before html_theme_options *)
(* is built, six times in all.                                             *)
C3_OnlyNavLinksGrows ==
    [][/\ \A x \in DOMAIN ns : x \in DOMAIN ns' /\ ns'[x] = ns[x]
       /\ (Running /\ Binding /\ pc' = pc + 1) => ~Bound(Program[pc].target)
       /\ \A o \in DOMAIN heap :
            /\ o \in DOMAIN heap'
            /\ heap'[o] # heap[o] =>
                /\ Bound("extra_nav_links")
                /\ ns["extra_nav_links"] = [ref |-> o]
                /\ Program[pc].kind = "setitem"
                /\ ~Bound("html_theme_options")
                /\ Len(heap'[o]) = Len(heap[o]) + 1
                /\ Len(heap'[o]) <= 6
                /\ SubSeq(heap'[o], 1, Len(heap[o])) = heap[o]
                /\ heap'[o][Len(heap'[o])][1] \notin od_keys(heap[o])
       /\ Bound("html_theme_options") =>
            Len(heap[ns["extra_nav_links"].ref]) = 6]_vars

C3_Witness ==
    /\ Loaded
    /\ Len(heap[ns["extra_nav_links"].ref]) = 6
    /\ ns["html_theme_options"]["extra_nav_links"] = ns["extra_nav_links"]

-----------------------------------------------------------------------------
VersionNames == {"release", "version", "MDAnalysis_version"}

(* C4, as claimed: every version-related name is assigned a string literal.*)
C4_VersionsAreLiterals ==
    (Running /\ Program[pc].kind = "assign" /\ Program[pc].target \in VersionNames)
        => Program[pc].value.op = "lit"

(* C4, amended: release and MDAnalysis_version are assigned string         *)
(* literals; version is not: it is computed from release and from nothing  *)
(* else, and for release '2.0.0' it comes out as '2.0'.                    *)
C4_OnlyVersionComputed ==
    /\ (Running /\ Program[pc].kind = "assign"
            /\ Program[pc].target \in {"release", "MDAnalysis_version"})
        => Program[pc].value.op = "lit"
    /\ (Running /\ Program[pc].kind = "assign" /\ Program[pc].target = "version")
        => /\ Program[pc].value.op # "lit"
           /\ FreeNames(Program[pc].value) = {"release"}
    /\ Bound("version") =>
        /\ ns["release"] = ReleaseInSource
        /\ ns["version"] = <<"2", ".", "0">>

C4_Witness ==
    /\ Bound("version")
    /\ Bound("MDAnalysis_version")
    /\ ns["version"] # ns["release"]

-----------------------------------------------------------------------------
ImportedByConf == {"sys", "os", "collections"}

(* C5: no step of the load changes sys.path, the environment or the files; *)
(* a step either binds a name, assigns an item of an object the namespace  *)
(* holds, or imports sys, os or collections.                               *)
C5_NoOutsideEffect ==
    [][/\ sysPath' = sysPath
       /\ environ' = environ
       /\ files' = files
       /\ sysModules' \subseteq sysModules \cup ImportedByConf
       /\ sysModules' # sysModules => Program[pc].kind \in {"import", "from_import"}
       /\ Program[pc].kind \in {"import", "from_import"}
            => Program[pc].module \in ImportedByConf]_vars

C5_Witness ==
    /\ Loaded
    /\ sysPath # <<>>
    /\ environ # <<>>
    /\ {"sys", "os", "OrderedDict"} \subseteq DOMAIN ns
    /\ sysModules = {"sys", "os", "collections"}

-----------------------------------------------------------------------------
DocumentLists == {"latex_documents", "man_pages", "texinfo_documents"}

(* C6, as claimed: every tuple of the three document lists has five fields.*)
C6_AllFiveFields ==
    \A d \in DocumentLists :
        Bound(d) => \A i \in 1..Len(ns[d]) : Len(ns[d][i]) = 5

(* C6, amended: each list holds one tuple per output document, starting    *)
(* with the source document; the tuples of latex_documents and man_pages   *)
(* have five fields (ending in the document class and the manual section), *)
(* those of texinfo_documents have seven, the category being the last.     *)
C6_FiveFiveSeven ==
    /\ \A d \in DocumentLists :
        Bound(d) => Len(ns[d]) = 1 /\ ns[d][1][1] = "index"
    /\ Bound("latex_documents") =>
        \A i \in 1..Len(ns["latex_documents"]) :
            /\ Len(ns["latex_documents"][i]) = 5
            /\ ns["latex_documents"][i][5] = "manual"
    /\ Bound("man_pages") =>
        \A i \in 1..Len(ns["man_pages"]) :
            /\ Len(ns["man_pages"][i]) = 5
            /\ ns["man_pages"][i][5] = 1
    /\ Bound("texinfo_documents") =>
        \A i \in 1..Len(ns["texinfo_documents"]) :
            /\ Len(ns["texinfo_documents"][i]) = 7
            /\ ns["texinfo_documents"][i][7] = "Miscellaneous"

C6_Witness ==
    /\ Loaded
    /\ DocumentLists \subseteq DOMAIN ns
    /\ Len(ns["texinfo_documents"][1]) > Len(ns["latex_documents"][1])

-----------------------------------------------------------------------------
Dots(s) == {i \in 1..Len(s) : s[i] = "."}

\* s up to, not including, its second dot; s itself when it has fewer.
ShortForm(s) ==
    IF Cardinality(Dots(s)) < 2
    THEN s
    ELSE SubSeq(s, 1, Min(Dots(s) \ {Min(Dots(s))}) - 1)

(* C7: for every release string, version is the first two dot-separated    *)
(* components of release joined by one dot: release itself when it has at  *)
(* most two components, '2.0' for '2.0.0', and always a prefix of release. *)
C7_VersionIsShortRelease ==
    Bound("version") =>
        /\ ns["release"] = releaseLiteral
        /\ ns["version"] = ShortForm(ns["release"])
        /\ IsPrefix(ns["version"], ns["release"])
        /\ Cardinality(Dots(ns["release"])) <= 1 => ns["version"] = ns["release"]
        /\ ns["release"] = ReleaseInSource => ns["version"] = <<"2", ".", "0">>

C7_Witness ==
    /\ Loaded
    /\ Cardinality(Dots(ns["release"])) = 3
    /\ ns["release"][1] = "."
    /\ Len(ns["version"]) = 1

-----------------------------------------------------------------------------
SubstitutionStart == <<".", ".", " ", "|">>
SubstitutionName == <<"M", "D", "A", "n", "a", "l", "y", "s", "i", "s", "_",
                       "v", "e", "r", "s", "i", "o", "n">>
SubstitutionReplace == <<"|", " ", "r", "e", "p", "l", "a", "c", "e", ":", ":", " ">>

EpilogLines == str_split(ns["rst_epilog"], "\n")

(* C8: rst_epilog holds exactly one substitution definition, for           *)
(* MDAnalysis_version, and its replacement text is the value of            *)
(* MDAnalysis_version, '0.16.2', also once the load is complete.           *)
C8_EpilogDefinesVersion ==
    Bound("rst_epilog") =>
        /\ Cardinality({i \in 1..Len(EpilogLines) :
                           IsPrefix(SubstitutionStart, EpilogLines[i])}) = 1
        /\ \A i \in 1..Len(EpilogLines) :
              \/ EpilogLines[i] = <<>>
              \/ EpilogLines[i] = SubstitutionStart \o SubstitutionName
                                    \o SubstitutionReplace \o ns["MDAnalysis_version"]
        /\ ns["MDAnalysis_version"] = <<"0", ".", "1", "6", ".", "2">>

C8_Witness ==
    /\ Loaded
    /\ Len(ns["rst_epilog"]) =
          Len(rst_epilog_template) - Len(Field0) + Len(ns["MDAnalysis_version"])

-----------------------------------------------------------------------------
(* C9: the first field of every tuple of latex_documents, man_pages and    *)
(* texinfo_documents is the document named by master_doc.                  *)
C9_DocumentsStartAtMaster ==
    \A d \in DocumentLists :
        Bound(d) =>
            /\ Bound("master_doc")
            /\ \A i \in 1..Len(ns[d]) : ns[d][i][1] = ns["master_doc"]

C9_Witness ==
    /\ Loaded
    /\ DocumentLists \subseteq DOMAIN ns
    /\ ns["master_doc"] = "index"
    /\ \A d \in DocumentLists : Len(ns[d]) >= 1

-----------------------------------------------------------------------------
\* The extension each extension-specific option belongs to.
OptionOwner ==
    [intersphinx_mapping |-> "sphinx.ext.intersphinx",
     mathjax_path |-> "sphinx.ext.mathjax",
     autoclass_content |-> "sphinx.ext.autodoc",
     site_url |-> "sphinx_sitemap"]

(* C10: whenever an extension-specific option is set, the extension that   *)
(* owns it is listed in extensions; the loaded configuration sets all four.*)
C10_OwnersActivated ==
    /\ \A o \in DOMAIN OptionOwner :
        Bound(o) => Bound("extensions") /\ OptionOwner[o] \in Range(ns["extensions"])
    /\ Loaded => DOMAIN OptionOwner \subseteq DOMAIN ns

C10_Witness ==
    /\ Loaded
    /\ DOMAIN OptionOwner \subseteq DOMAIN ns
    /\ Len(ns["extensions"]) = 7

=============================================================================
